---- MODULE Spec2Model ----
(***************************************************************************)
(* Catalog synchronisation pipeline of StreamVault (YCTV).                 *)
(*                                                                         *)
(* The model follows backend/src/jobs/syncCatalog.js (class CatalogSyncer), *)
(* the Media model it writes to, the TMDB client it reads from and the     *)
(* unique indexes the database configuration creates.                      *)
(*                                                                         *)
(* Units: ratings are kept in tenths (6.0 is 60), dates in days.  A run is  *)
(* far shorter than a day, so the clock only moves between runs.           *)
(* Every "await" of the code is a step boundary; code between two awaits   *)
(* is one atomic step (node runs callbacks to completion).                 *)
(***************************************************************************)
EXTENDS Integers, Sequences, FiniteSets, TLC

VARIABLES
    media,      \* the Media collection: sequence of documents, _id = index
    remote,     \* what the TMDB API currently answers, per remote title
    now,        \* the clock (Date.now()), in days
    isRunning,  \* CatalogSyncer.isRunning, the run guard
    stats,      \* CatalogSyncer.stats, shared by every operation
    tasks,      \* the async call chains in progress, one record per chain
    calls,      \* number of top-level operations requested so far
    ticks,      \* number of clock advances so far
    edits,      \* number of changes of the remote catalog so far
    acts,       \* number of viewer actions (views, ratings) so far
    faults,     \* number of failed remote or store calls so far
    refused,    \* number of calls turned away by the run guard so far
    baseline,   \* observer: documents in the collection when the last fullSync
                \* ended with no other operation around it, -1 if none did
    client,     \* the TMDBService instance: request queue, cache, processor
    cli,        \* the command-line process: command, environment, exit status
    direct      \* the TMDBService of services/tmdbService.js: calls in flight

vars == <<media, remote, now, isRunning, stats, tasks, calls, ticks, edits, acts,
          faults, refused, baseline, client, cli, direct>>

---------------------------------------------------------------------------
(* Bounds of the model *)

MaxMovieId == 2         \* remote movie ids are 1..MaxMovieId
MaxTvId == 1            \* remote tv ids are 1..MaxTvId
MaxCalls == 3           \* top-level operations requested in one behaviour
MaxTicks == 1           \* clock advances in one behaviour
MaxEvents == 1          \* remote edits, viewer actions and failed calls in one behaviour
TrendingTop == 2        \* stands for slice(0, 50) of the trending listing
StaleLimit == 2         \* stands for limit(200) of the staleness query

---------------------------------------------------------------------------
(* Program configuration: CatalogSyncer.config, ratings in tenths *)

config == [minRating |-> 60, maxItemsPerGenre |-> 50, batchSize |-> 10]

---------------------------------------------------------------------------
(* Sequence helpers *)

Take(s, n) == IF Len(s) <= n THEN s ELSE SubSeq(s, 1, n)

Range(s) == {s[i] : i \in DOMAIN s}

---------------------------------------------------------------------------
(* TMDBService.generateSlug: titles are sequences of characters *)

toLowerCase(c) ==
    CASE c = "R" -> "r" [] c = "U" -> "u" [] c = "O" -> "o" [] OTHER -> c

\* String.normalize('NFD'): a precomposed letter becomes letter + combining mark
RECURSIVE normalizeNFD(_)
normalizeNFD(s) ==
    IF s = <<>> THEN <<>>
    ELSE (IF Head(s) = "a-acute" THEN <<"a", "acute">> ELSE <<Head(s)>>)
         \o normalizeNFD(Tail(s))

\* the range \u0300-\u036f
IsCombiningMark(c) == c = "acute"
IsAlnum(c) == c \in {"a", "n", "o", "p", "r", "u", "z", "2"}
IsSpace(c) == c = " "

\* replace(/\s+/g, '-') : every run of whitespace becomes one hyphen
RECURSIVE spacesToHyphen(_)
spacesToHyphen(s) ==
    IF s = <<>> THEN <<>>
    ELSE IF IsSpace(Head(s))
         THEN IF Len(s) > 1 /\ IsSpace(s[2]) THEN spacesToHyphen(Tail(s))
              ELSE <<"-">> \o spacesToHyphen(Tail(s))
         ELSE <<Head(s)>> \o spacesToHyphen(Tail(s))

\* replace(/-+/g, '-')
RECURSIVE collapseHyphens(_)
collapseHyphens(s) ==
    IF s = <<>> THEN <<>>
    ELSE IF Head(s) = "-" /\ Len(s) > 1 /\ s[2] = "-" THEN collapseHyphens(Tail(s))
         ELSE <<Head(s)>> \o collapseHyphens(Tail(s))

\* String.trim(): whitespace at both ends
RECURSIVE trimLeft(_)
trimLeft(s) == IF s # <<>> /\ IsSpace(Head(s)) THEN trimLeft(Tail(s)) ELSE s
RECURSIVE trimRight(_)
trimRight(s) ==
    IF s # <<>> /\ IsSpace(s[Len(s)]) THEN trimRight(SubSeq(s, 1, Len(s) - 1)) ELSE s

generateSlug(title) ==
    LET lower    == [i \in DOMAIN title |-> toLowerCase(title[i])]
        nfd      == normalizeNFD(lower)
        noMarks  == SelectSeq(nfd, LAMBDA c : ~IsCombiningMark(c))
        cleaned  == SelectSeq(noMarks, LAMBDA c : IsAlnum(c) \/ IsSpace(c))
        hyphened == spacesToHyphen(cleaned)
    IN  trimRight(trimLeft(collapseHyphens(hyphened)))

Titles == { <<"R", "a", "n">>, <<"r", "a-acute", "n", "!">>, <<"U", "p", " ", "2">>, <<"O", "z">> }

---------------------------------------------------------------------------
(* The remote catalog (TMDB).  Movie and tv ids are separate id spaces. *)

\* generateSlug, tabulated over the titles
SlugOf == [t \in Titles |-> generateSlug(t)]

RemoteItems == ({"movie"} \X (1..MaxMovieId)) \cup ({"tv"} \X (1..MaxTvId))

RatingLevels == {40, 65, 75}

\* canonical order of a listing: movies by id, then tv by id
ItemRank(k) == IF k[1] = "movie" THEN k[2] ELSE MaxMovieId + k[2]

RECURSIVE SortItems(_)
SortItems(S) ==
    IF S = {} THEN <<>>
    ELSE LET k == CHOOSE x \in S : \A y \in S : ItemRank(x) <= ItemRank(y)
         IN  <<k>> \o SortItems(S \ {k})

\* TMDBService.isAnime: Japanese origin and the animation genre
isAnime(r) == r.japanese /\ r.animation

\* type given by formatMoviesResponse / formatTVResponse / formatSearchResponse
\* and by formatMovieDetails / formatTVDetails
TypeOf(k) ==
    IF k[1] = "movie" THEN "movie"
    ELSE IF isAnime(remote[k]) THEN "anime" ELSE "series"

\* one entry of a listing (RemoteSummary)
Summary(k) == [tmdbId |-> k[2], medium |-> k[1], type |-> TypeOf(k),
               average |-> remote[k].average]

\* the titles the remote catalog still serves; a withdrawn title is in no
\* listing and its detail request is answered with 404
Offered == {k \in RemoteItems : ~remote[k].gone}

Available(k) == k \in Offered

\* a listing endpoint: the titles of one medium, filtered by the server-side
\* query parameters ('vote_average.gte', with_genres + with_origin_country)
Listing(medium, serverMin, animeOnly) ==
    LET S == {k \in Offered :
                /\ k[1] = medium
                /\ remote[k].average >= serverMin
                /\ (animeOnly => isAnime(remote[k]))}
    IN  [i \in DOMAIN SortItems(S) |-> Summary(SortItems(S)[i])]

\* /trending/all/week: every title, the currently hottest one first
TrendingListing ==
    LET hot  == {k \in Offered : remote[k].hot}
        cold == Offered \ hot
        ord  == SortItems(hot) \o SortItems(cold)
    IN  [i \in DOMAIN ord |-> Summary(ord[i])]

InitRemote ==
    [k \in RemoteItems |->
        [title     |-> IF k = <<"movie", 1>> THEN <<"R", "a", "n">>
                       ELSE IF k[1] = "movie" THEN <<"U", "p", " ", "2">>
                       ELSE <<"O", "z">>,
         average   |-> IF k[1] = "movie" THEN 75 ELSE 40,
         japanese  |-> FALSE,
         animation |-> k[1] = "tv",
         hot       |-> FALSE,
         gone      |-> FALSE]]

---------------------------------------------------------------------------
(* The Media collection *)

\* unique indexes declared by the schema (slug: unique) and by createIndexes
mediaSchemaUnique == { <<"slug">> }
createIndexes == { <<"tmdbId", "type">>, <<"slug">> }

\* variant: a collection without unique indexes
NoUniqueIndexes == {}

UniqueIndexes == mediaSchemaUnique \cup createIndexes

KeyOf(doc, index) == [i \in DOMAIN index |-> doc[index[i]]]

\* variant: a store that enforces no unique index
NeverDuplicateKey(coll, doc, self) == FALSE

\* E11000: the document would collide, on a unique index, with another one
DuplicateKey(coll, doc, self) ==
    \E index \in UniqueIndexes : \E j \in DOMAIN coll :
        j # self /\ KeyOf(coll[j], index) = KeyOf(doc, index)

\* Media.findByTmdbId: _id of the active document with this key, 0 for null
findByTmdbId(tmdbId, type) ==
    LET hits == {i \in DOMAIN media : /\ media[i].tmdbId = tmdbId
                                      /\ media[i].type = type
                                      /\ media[i].isActive}
    IN  IF hits = {} THEN 0 ELSE CHOOSE i \in hits : \A j \in hits : i <= j

\* getMovieDetails / getTVDetails, after formatMovieDetails / formatTVDetails
Details(k) == [tmdbId |-> k[2], type |-> TypeOf(k), title |-> remote[k].title,
               average |-> remote[k].average]

\* processBatch and updateExistingContent pick the endpoint from the type
DetailKey(type, tmdbId) == <<IF type = "movie" THEN "movie" ELSE "tv", tmdbId>>

convertTMDBToMediaFormat(details) ==
    [tmdbId     |-> details.tmdbId,
     type       |-> details.type,
     slug       |-> SlugOf[details.title],
     average    |-> details.average,
     internal   |-> [average |-> 0, count |-> 0],
     isActive   |-> TRUE,
     trending   |-> FALSE,
     views      |-> 0,
     ratings    |-> 0,
     createdAt  |-> now,
     lastSyncAt |-> now]

\* variant: a refresh that writes the creation date as the sync date
updateDataBackdated(details, old) ==
    [convertTMDBToMediaFormat(details) EXCEPT
        !.lastSyncAt = old.createdAt,
        !.views = old.views,
        !.ratings = old.ratings,
        !.createdAt = old.createdAt]

\* the update object of updateExistingContent for the document `old`
updateData(details, old) ==
    [convertTMDBToMediaFormat(details) EXCEPT
        !.lastSyncAt = now,
        !.views = old.views,
        !.ratings = old.ratings,
        !.createdAt = old.createdAt]

\* the filter of cleanupObsoleteContent
cleanupFilter(doc) ==
    /\ doc.isActive
    /\ doc.views < 5
    /\ doc.createdAt < now - 365
    /\ doc.average < 50

\* the rating subdocument of a stored document
ratingOf(doc) == [tmdb |-> [average |-> doc.average], internal |-> doc.internal]

\* the filter of cleanupObsoleteContent in scripts/syncCatalog.js: its last
\* clause compares the whole rating subdocument with the literal
\* { 'tmdb.average': { $lt: 5.0 } }
scripts_cleanupFilter(doc) ==
    /\ doc.isActive
    /\ doc.views < 10
    /\ doc.createdAt < now - 365
    /\ ratingOf(doc) = ("tmdb.average" :> ("$lt" :> 50))

\* the filter of updateExistingContent: not synced for more than 7 days
staleFilter(doc) == doc.lastSyncAt < now - 7

---------------------------------------------------------------------------
(* The discovery strategies of fullSync: steps 1..5, each a sequence of     *)
(* listing fetches, each followed by processBatch on the admitted items.    *)
(* src: the endpoint; serverMin / animeOnly: the query sent to the server;  *)
(* localMin / typeIs: the filter applied to the results; limit: the slice;  *)
(* ptype: the type handed to processBatch.                                  *)

Phase(src, medium, serverMin, animeOnly, localMin, typeIs, limit, ptype) ==
    [src |-> src, medium |-> medium, serverMin |-> serverMin,
     animeOnly |-> animeOnly, localMin |-> localMin, typeIs |-> typeIs,
     limit |-> limit, ptype |-> ptype]

syncPopularMovies ==
    << Phase("/movie/popular", "movie", 0, FALSE, config.minRating, "any", 1000, "movie"),
       Phase("/movie/now_playing", "movie", 0, FALSE, config.minRating, "any", 50, "movie"),
       Phase("/movie/top_rated", "movie", 0, FALSE, 0, "any", 30, "movie") >>

syncPopularSeries ==
    << Phase("/tv/popular", "tv", 0, FALSE, config.minRating, "series", 1000, "series"),
       Phase("/tv/top_rated", "tv", 0, FALSE, 0, "series", 30, "series") >>

syncPopularAnimes ==
    << Phase("/discover/tv", "tv", 65, TRUE, 0, "anime", 100, "anime"),
       Phase("/trending/tv/week", "tv", 0, FALSE, 0, "anime", 20, "anime") >>

syncByGenres ==
    << Phase("/discover/movie", "movie", config.minRating, FALSE, config.minRating,
             "any", config.maxItemsPerGenre, "movie"),
       Phase("/discover/tv", "tv", config.minRating, FALSE, config.minRating,
             "series", config.maxItemsPerGenre, "series") >>

syncBrazilianContent ==
    << Phase("/discover/movie", "movie", 50, FALSE, 0, "any", 50, "movie"),
       Phase("/discover/tv", "tv", 50, FALSE, 0, "series", 30, "series") >>

Strategies == << syncPopularMovies, syncPopularSeries, syncPopularAnimes,
                 syncByGenres, syncBrazilianContent >>

\* the results of the listing a phase fetches
Results(ph) ==
    IF ph.src = "/trending/tv/week"
    THEN SelectSeq(TrendingListing, LAMBDA it : it.medium = "tv")
    ELSE Listing(ph.medium, ph.serverMin, ph.animeOnly)

\* the batch a phase hands to processBatch
Admitted(ph) ==
    Take(SelectSeq(Results(ph),
                   LAMBDA it : /\ it.average >= ph.localMin
                               /\ (ph.typeIs # "any" => it.type = ph.typeIs)),
         ph.limit)

---------------------------------------------------------------------------
(* Async call chains.  "guarded" is the chain of the operation that holds   *)
(* the isRunning guard (fullSync, syncNewReleases); "unguarded" is a chain  *)
(* started by an entry point that takes no guard (syncTrendingContent from  *)
(* its timer or from runManualSync).                                       *)

Chains == {"guarded", "unguarded"}

IdleTask ==
    [op |-> "idle", step |-> 0, ph |-> 0, pc |-> "idle",
     queue |-> <<>>, ptype |-> "none", processed |-> 0, ret |-> "none",
     acc |-> 0, top |-> <<>>, tlist |-> <<>>, ids |-> {},
     stale |-> <<>>, updated |-> 0, held |-> <<>>,
     ran |-> {}, threw |-> {}, failed |-> {}]

resetStats ==
    [totalSynced |-> 0, moviesAdded |-> 0, seriesAdded |-> 0, animesAdded |-> 0,
     updated |-> 0, errors |-> 0, startTime |-> now, endTime |-> -1]

InitStats ==
    [totalSynced |-> 0, moviesAdded |-> 0, seriesAdded |-> 0, animesAdded |-> 0,
     updated |-> 0, errors |-> 0, startTime |-> -1, endTime |-> -1]

\* outcome of a step of a chain: its next record, the stats and the guard
Out(t, s, r) == [t |-> t, s |-> s, r |-> r]

Errors(st) == [st EXCEPT !.errors = @ + 1]

\* variant: the run ends and keeps the guard
FinallyHolding(st) == Out(IdleTask, st, TRUE)

\* the end of fullSync and of syncNewReleases, reached from the try block
\* and from the catch block: finally { this.isRunning = false }
Finally(st) == Out(IdleTask, st, FALSE)

\* control reaches step n of fullSync (1..5 strategies, 6 trending,
\* 7 updateExistingContent, 8 cleanupObsoleteContent, 9 the end of the run)
StartStep(tr, n) ==
    [tr EXCEPT !.step = n, !.ph = 1, !.acc = 0,
               !.ran = IF n <= 8 THEN @ \cup {n} ELSE @,
               !.queue = <<>>, !.processed = 0,
               !.pc = CASE n <= 5 -> "list"
                        [] n = 6  -> "trendReset"
                        [] n = 7  -> "updFind"
                        [] n = 8  -> "cleanup"
                        [] OTHER  -> "finish"]

\* this.stats.moviesAdded += moviesAdded, at the end of a strategy
Commit(st, step, n) ==
    CASE step = 1 -> [st EXCEPT !.moviesAdded = @ + n]
      [] step = 2 -> [st EXCEPT !.seriesAdded = @ + n]
      [] step = 3 -> [st EXCEPT !.animesAdded = @ + n]
      [] OTHER    -> st

\* variant: a failing step ends the run
StepAborts(tr, st) ==
    Out([tr EXCEPT !.threw = @ \cup {tr.step}, !.step = 9, !.pc = "finish"],
        [st EXCEPT !.errors = @ + 1], TRUE)

\* the catch block of a strategy step: count the error, go on with the next step
StepThrows(tr, st) ==
    Out(StartStep([tr EXCEPT !.threw = @ \cup {tr.step}], tr.step + 1), Errors(st), TRUE)

\* the end of syncTrendingContent
TrendingEnds(tr, st) ==
    IF tr.op = "fullSync" THEN Out(StartStep(tr, 7), st, isRunning)
    ELSE Out(IdleTask, st, isRunning)

TrendingThrows(tr, st) ==
    TrendingEnds([tr EXCEPT !.threw = @ \cup {6}], Errors(st))

\* the loop of syncTrendingContent over the sliced listing
TrendNext(tr) ==
    IF tr.tlist = <<>> THEN [tr EXCEPT !.pc = "trendMark", !.queue = <<>>]
    ELSE [tr EXCEPT !.pc = "trendFind", !.queue = <<>>]

\* processBatch(items, type) is entered; an empty batch returns at once
EnterBatch(tr, items, type, ret) ==
    [tr EXCEPT !.queue = items, !.ptype = type, !.ret = ret, !.processed = 0,
               !.pc = IF items = <<>> THEN "return" ELSE "lookup"]

\* variant: the batch is left after the current item
LeaveBatch(tr) == [tr EXCEPT !.queue = <<>>, !.pc = "return"]

\* after one item of processBatch (and its delay(100)): the next one, or return
NextItem(tr) ==
    IF Len(tr.queue) <= 1 THEN [tr EXCEPT !.queue = <<>>, !.pc = "return"]
    ELSE [tr EXCEPT !.queue = Tail(@), !.pc = "lookup"]

\* Media.updateMany({}, { trending: false })
resetTrending(coll) == [i \in DOMAIN coll |-> [coll[i] EXCEPT !.trending = FALSE]]

\* Media.updateMany({ _id: { $in: trendingIds } }, { trending: true })
markTrending(coll, ids) ==
    [i \in DOMAIN coll |-> IF i \in ids THEN [coll[i] EXCEPT !.trending = TRUE]
                           ELSE coll[i]]

\* Media.updateMany(<cleanup filter>, { isActive: false })
deactivateObsolete(coll) ==
    [i \in DOMAIN coll |-> IF cleanupFilter(coll[i])
                           THEN [coll[i] EXCEPT !.isActive = FALSE]
                           ELSE coll[i]]

\* Media.find({ lastSyncAt: { $lt: now - 7 days } }).limit(200), in _id order:
\* snapshots of the documents, as the query returned them
RECURSIVE Snapshots(_, _)
Snapshots(coll, from) ==
    IF from > Len(coll) THEN <<>>
    ELSE IF staleFilter(coll[from])
         THEN <<[id |-> from, doc |-> coll[from]]>> \o Snapshots(coll, from + 1)
         ELSE Snapshots(coll, from + 1)

\* variant: a query with neither the staleness filter nor the limit
findEvery(coll) == [i \in DOMAIN coll |-> [id |-> i, doc |-> coll[i]]]

findStale(coll) == Take(Snapshots(coll, 1), StaleLimit)

\* variant: no guard
NeverRefuses == FALSE

\* the guard of fullSync and syncNewReleases
Refuses == isRunning

---------------------------------------------------------------------------
(* The TMDB client (TMDBService with its rate-limiting queue).  Time is in  *)
(* units of 125 ms.                                                         *)

requestDelay == 2       \* this.requestDelay = 250 ms

\* cache keys of the requests made: `${endpoint}_${JSON.stringify(params)}`
CacheKeys == {"/movie/1", "/movie/1/credits"}

NoRequest == [id |-> 0, key |-> "none", doneAtEnq |-> 0, during |-> "none"]

\* TMDBService constructor: empty queue, empty cache, processor stopped.
\* clk is the time; sentCount / doneCount count the axios calls started and
\* completed, lastSent / lastDone are the times of the last ones (-1: none);
\* asked is the key of the last makeRequest, done the log of the completed
\* axios calls, settled the promises answered so far and how
InitClient ==
    [requestQueue |-> <<>>, isProcessingQueue |-> FALSE, pc |-> "idle",
     cur |-> NoRequest, wake |-> 0, cache |-> {}, clk |-> 0, issued |-> 0,
     sentCount |-> 0, doneCount |-> 0, lastSent |-> -1, lastDone |-> -1,
     asked |-> "none", done |-> <<>>, settled |-> {}]

\* the command-line process has not been started
InitCli ==
    [pc |-> "off", variant |-> "none", command |-> "none", arg |-> FALSE,
     store |-> TRUE, apiKey |-> TRUE, initialized |-> FALSE, ran |-> "none",
     completed |-> FALSE, exit |-> -1]

\* the TMDBService of services/tmdbService.js holds no queue and no cache:
\* nothing is in flight, no detail call has been made
InitDirect ==
    [calls |-> 0, kind |-> "none", tmdbId |-> 0, pending |-> {},
     waiting |-> FALSE, returned |-> "none"]

---------------------------------------------------------------------------
(* Initial state: an empty collection, nothing running *)

Init ==
    /\ media = <<>>
    /\ remote = InitRemote
    /\ now = 0
    /\ isRunning = FALSE
    /\ stats = InitStats
    /\ tasks = [c \in Chains |-> IdleTask]
    /\ calls = 0
    /\ ticks = 0
    /\ edits = 0
    /\ acts = 0
    /\ faults = 0
    /\ refused = 0
    /\ baseline = -1
    /\ client = InitClient
    /\ cli = InitCli
    /\ direct = InitDirect

World == <<remote, now, ticks, edits, acts, client, cli, direct>>
Env == <<World, baseline, refused>>

Quiet == \A c \in Chains : tasks[c].op = "idle"

\* a remote or store call answers or fails
\* remote edits, user actions and failing calls share one budget
Budget == edits + acts + faults < MaxEvents

Answers == IF Budget THEN BOOLEAN ELSE {TRUE}
Outcomes(failures) == IF Budget THEN {"ok"} \cup failures ELSE {"ok"}
Fault(ok) == faults' = IF ok THEN faults ELSE faults + 1

Step(c, out) ==
    /\ tasks' = [tasks EXCEPT ![c] = out.t]
    /\ stats' = out.s
    /\ isRunning' = out.r

---------------------------------------------------------------------------
(* Entry points: the cron timers, the CLI and runManualSync call these *)

fullSync ==
    /\ calls < MaxCalls
    /\ calls' = calls + 1
    /\ IF Refuses
       THEN UNCHANGED <<tasks, stats, isRunning>>
       ELSE Step("guarded",
                 Out(StartStep([IdleTask EXCEPT !.op = "fullSync"], 1), resetStats, TRUE))
    /\ refused' = IF Refuses THEN refused + 1 ELSE refused
    /\ UNCHANGED <<media, World, baseline, faults>>

syncNewReleases ==
    /\ calls < MaxCalls
    /\ calls' = calls + 1
    /\ IF Refuses
       THEN UNCHANGED <<tasks, stats, isRunning>>
       ELSE Step("guarded",
                 Out([IdleTask EXCEPT !.op = "syncNewReleases", !.pc = "nrUpcoming"],
                     stats, TRUE))
    /\ baseline' = IF Refuses THEN baseline ELSE -1
    /\ refused' = IF Refuses THEN refused + 1 ELSE refused
    /\ UNCHANGED <<media, World, faults>>

syncTrendingContent ==
    /\ calls < MaxCalls
    /\ calls' = calls + 1
    /\ tasks["unguarded"].op = "idle"
    /\ Step("unguarded",
            Out([IdleTask EXCEPT !.op = "syncTrendingContent", !.step = 6,
                                 !.pc = "trendReset"],
                stats, isRunning))
    /\ baseline' = -1
    /\ UNCHANGED <<media, World, refused, faults>>

cleanupObsoleteContent ==
    /\ calls < MaxCalls
    /\ calls' = calls + 1
    /\ \E ok \in Answers : Fault(ok) /\
          /\ media' = IF ok THEN deactivateObsolete(media) ELSE media
          /\ stats' = IF ok THEN stats ELSE Errors(stats)
    /\ UNCHANGED <<isRunning, tasks, Env>>

\* cleanupObsoleteContent of scripts/syncCatalog.js (the `cleanup` command and
\* the weekly task of the CLI), on the same collection
scripts_cleanupObsoleteContent ==
    /\ calls < MaxCalls
    /\ calls' = calls + 1
    /\ \E ok \in Answers : Fault(ok) /\
          /\ media' = IF ok
                      THEN [i \in DOMAIN media |->
                              IF scripts_cleanupFilter(media[i])
                              THEN [media[i] EXCEPT !.isActive = FALSE]
                              ELSE media[i]]
                      ELSE media
          /\ stats' = IF ok THEN stats ELSE Errors(stats)
    /\ UNCHANGED <<isRunning, tasks, Env>>

---------------------------------------------------------------------------
(* Steps of a discovery strategy and of processBatch *)

FetchListing(c) ==
    LET tr == tasks[c] IN
    /\ tr.pc = "list"
    /\ \E ok \in Answers : Fault(ok) /\
          Step(c, IF ok
                  THEN LET ph == Strategies[tr.step][tr.ph]
                       IN  Out(EnterBatch(tr, Admitted(ph), ph.ptype, "phase"),
                               stats, isRunning)
                  ELSE StepThrows(tr, stats))
    /\ UNCHANGED <<media, calls, Env>>

LookupItem(c) ==
    LET tr == tasks[c]
        item == Head(tr.queue)
    IN
    /\ tr.pc = "lookup"
    /\ Step(c, Out(IF findByTmdbId(item.tmdbId, tr.ptype) # 0
                   THEN NextItem(tr)
                   ELSE [tr EXCEPT !.pc = "details"],
                   stats, isRunning))
    /\ UNCHANGED <<media, calls, Env, faults>>

FetchAndSave(c) ==
    LET tr == tasks[c]
        item == Head(tr.queue)
        k == DetailKey(tr.ptype, item.tmdbId)
    IN
    /\ tr.pc = "details"
    /\ \E outcome \in Outcomes({"fetchFails", "saveFails"}) : Fault(outcome = "ok") /\
          LET doc == convertTMDBToMediaFormat(Details(k))
              saved == /\ outcome = "ok"
                       /\ Available(k)
                       /\ ~DuplicateKey(media, doc, 0)
          IN  /\ media' = IF saved THEN Append(media, doc) ELSE media
              /\ Step(c, Out(NextItem([tr EXCEPT
                                  !.processed = IF saved THEN @ + 1 ELSE @,
                                  !.failed = IF outcome = "fetchFails"
                                             THEN @ \cup {k} ELSE @]),
                             IF saved THEN stats ELSE Errors(stats),
                             isRunning))
    /\ UNCHANGED <<calls, Env>>

upcomingBatch(results) ==
    Take(SelectSeq(results, LAMBDA it : it.average >= 70), 10)

nowPlayingBatch(results) ==
    Take(SelectSeq(results, LAMBDA it : it.average >= 60), 20)

BatchReturns(c) ==
    LET tr == tasks[c]
        sum == [tr EXCEPT !.acc = @ + tr.processed]
    IN
    /\ tr.pc = "return"
    /\ Step(c,
         CASE tr.ret = "phase" ->
                IF tr.ph < Len(Strategies[tr.step])
                THEN Out([sum EXCEPT !.ph = @ + 1, !.pc = "list"], stats, isRunning)
                ELSE Out(StartStep(sum, tr.step + 1),
                         Commit(stats, tr.step, sum.acc), isRunning)
           [] tr.ret = "trend" ->
                Out(IF tr.processed > 0
                    THEN [tr EXCEPT !.pc = "trendRefind"]
                    ELSE TrendNext([tr EXCEPT !.tlist = Tail(@)]),
                    stats, isRunning)
           [] tr.ret = "nr1" ->
                Out(EnterBatch(sum, upcomingBatch(tr.held), "movie", "nr2"),
                    stats, isRunning)
           [] OTHER -> Finally(stats))
    /\ UNCHANGED <<media, calls, Env, faults>>

---------------------------------------------------------------------------
(* Steps of syncNewReleases *)

FetchUpcoming(c) ==
    LET tr == tasks[c] IN
    /\ tr.pc = "nrUpcoming"
    /\ \E ok \in Answers : Fault(ok) /\
          Step(c, IF ok
                  THEN Out([tr EXCEPT !.held = Listing("movie", 0, FALSE),
                                      !.pc = "nrNowPlaying"], stats, isRunning)
                  ELSE Finally(stats))
    /\ UNCHANGED <<media, calls, Env>>

FetchNowPlaying(c) ==
    LET tr == tasks[c] IN
    /\ tr.pc = "nrNowPlaying"
    /\ \E ok \in Answers : Fault(ok) /\
          Step(c, IF ok
                  THEN Out(EnterBatch(tr, nowPlayingBatch(Listing("movie", 0, FALSE)),
                                      "movie", "nr1"), stats, isRunning)
                  ELSE Finally(stats))
    /\ UNCHANGED <<media, calls, Env>>

---------------------------------------------------------------------------
(* Steps of syncTrendingContent *)

TrendReset(c) ==
    LET tr == tasks[c] IN
    /\ tr.pc = "trendReset"
    /\ \E ok \in Answers : Fault(ok) /\
          /\ media' = IF ok THEN resetTrending(media) ELSE media
          /\ Step(c, IF ok THEN Out([tr EXCEPT !.pc = "trendFetch"], stats, isRunning)
                     ELSE TrendingThrows(tr, stats))
    /\ UNCHANGED <<calls, Env>>

TrendFetch(c) ==
    LET tr == tasks[c] IN
    /\ tr.pc = "trendFetch"
    /\ \E ok \in Answers : Fault(ok) /\
          Step(c, IF ok
                  THEN LET top == Take(TrendingListing, TrendingTop)
                       IN  Out(TrendNext([tr EXCEPT !.top = top, !.tlist = top,
                                                    !.ids = {}]), stats, isRunning)
                  ELSE TrendingThrows(tr, stats))
    /\ UNCHANGED <<media, calls, Env>>

TrendFind(c) ==
    LET tr == tasks[c]
        item == Head(tr.tlist)
        exists == findByTmdbId(item.tmdbId, item.type)
    IN
    /\ tr.pc = "trendFind"
    /\ Step(c, Out(IF exists # 0
                   THEN TrendNext([tr EXCEPT !.ids = @ \cup {exists},
                                             !.tlist = Tail(@)])
                   ELSE EnterBatch(tr, <<item>>, item.type, "trend"),
                   stats, isRunning))
    /\ UNCHANGED <<media, calls, Env, faults>>

TrendRefind(c) ==
    LET tr == tasks[c]
        item == Head(tr.tlist)
        newMedia == findByTmdbId(item.tmdbId, item.type)
    IN
    /\ tr.pc = "trendRefind"
    /\ Step(c, Out(TrendNext([tr EXCEPT
                        !.ids = IF newMedia # 0 THEN @ \cup {newMedia} ELSE @,
                        !.tlist = Tail(@)]),
                   stats, isRunning))
    /\ UNCHANGED <<media, calls, Env, faults>>

TrendMark(c) ==
    LET tr == tasks[c] IN
    /\ tr.pc = "trendMark"
    /\ \E ok \in Answers : Fault(ok) /\
          /\ media' = IF ok THEN markTrending(media, tr.ids) ELSE media
          /\ Step(c, IF ok THEN TrendingEnds(tr, stats)
                     ELSE TrendingThrows(tr, stats))
    /\ UNCHANGED <<calls, Env>>

---------------------------------------------------------------------------
(* Steps of updateExistingContent and cleanupObsoleteContent inside fullSync *)

UpdateFind(c) ==
    LET tr == tasks[c] IN
    /\ tr.pc = "updFind"
    /\ \E ok \in Answers : Fault(ok) /\
          Step(c, IF ok
                  THEN IF findStale(media) = <<>>
                       THEN Out(StartStep(tr, 8), stats, isRunning)
                       ELSE Out([tr EXCEPT !.stale = findStale(media), !.updated = 0,
                                           !.pc = "updItem"], stats, isRunning)
                  ELSE StepThrows(tr, stats))
    /\ UNCHANGED <<media, calls, Env>>

UpdateItem(c) ==
    LET tr == tasks[c]
        m == Head(tr.stale)
        k == DetailKey(m.doc.type, m.doc.tmdbId)
    IN
    /\ tr.pc = "updItem"
    /\ \E outcome \in Outcomes({"fetchFails", "writeFails"}) : Fault(outcome = "ok") /\
          LET data == updateData(Details(k), m.doc)
              done == /\ outcome = "ok"
                      /\ Available(k)
                      /\ ~DuplicateKey(media, data, m.id)
              n == IF done THEN tr.updated + 1 ELSE tr.updated
          IN  /\ media' = IF done THEN [media EXCEPT ![m.id] = data] ELSE media
              /\ Step(c, IF Len(tr.stale) > 1
                         THEN Out([tr EXCEPT !.stale = Tail(@), !.updated = n],
                                  stats, isRunning)
                         ELSE Out(StartStep([tr EXCEPT !.stale = <<>>, !.updated = n], 8),
                                  [stats EXCEPT !.updated = @ + n], isRunning))
    /\ UNCHANGED <<calls, Env>>

Cleanup(c) ==
    LET tr == tasks[c] IN
    /\ tr.pc = "cleanup"
    /\ \E ok \in Answers : Fault(ok) /\
          /\ media' = IF ok THEN deactivateObsolete(media) ELSE media
          /\ Step(c, Out(StartStep([tr EXCEPT !.threw = IF ok THEN @ ELSE @ \cup {8}], 9),
                         [(IF ok THEN stats ELSE Errors(stats)) EXCEPT !.endTime = now],
                         isRunning))
    /\ UNCHANGED <<calls, Env>>

\* after sendSyncStats: the finally block of fullSync
Finish(c) ==
    /\ tasks[c].pc = "finish"
    /\ Step(c, Finally(stats))
    /\ baseline' = IF \A d \in Chains \ {c} : tasks[d].op = "idle"
                   THEN Len(media) ELSE -1
    /\ UNCHANGED <<media, calls, World, refused, faults>>

---------------------------------------------------------------------------
(* The environment: time, the remote catalog, the viewers *)

Tick ==
    /\ ticks < MaxTicks
    /\ Quiet
    /\ ticks' = ticks + 1
    /\ \E d \in {8, 366} : now' = now + d
    /\ UNCHANGED <<media, isRunning, stats, tasks, calls, remote, edits, acts, faults, refused, baseline, client, cli, direct>>

EditRemote ==
    /\ Quiet
    /\ Budget
    /\ edits' = edits + 1
    /\ \E k \in RemoteItems :
          \/ \E t \in Titles \ {remote[k].title} :
                remote' = [remote EXCEPT ![k].title = t]
          \/ \E a \in RatingLevels \ {remote[k].average} :
                remote' = [remote EXCEPT ![k].average = a]
          \/ /\ k[1] = "tv"
             /\ remote' = [remote EXCEPT ![k].japanese = ~@]
          \/ remote' = [remote EXCEPT ![k].hot = ~@]
    /\ UNCHANGED <<media, isRunning, stats, tasks, calls, now, ticks, acts, faults, refused, baseline, client, cli, direct>>

\* Media.methods.incrementView, n times in a row
incrementView ==
    /\ Quiet
    /\ Budget
    /\ acts' = acts + 1
    /\ \E i \in DOMAIN media : \E n \in {5} :
          /\ media[i].views = 0
          /\ media' = [media EXCEPT ![i].views = @ + n]
    /\ UNCHANGED <<isRunning, stats, tasks, calls, remote, now, ticks, edits, faults, refused, baseline, client, cli, direct>>

\* Media.methods.updateRating(4.0, userId) by a viewer who has not rated yet:
\* analytics.ratings gets one more entry, rating.internal is recomputed from it
updateRating ==
    /\ Quiet
    /\ Budget
    /\ acts' = acts + 1
    /\ \E i \in DOMAIN media :
          LET totalRatings == media[i].ratings + 1
              sum == 40 * totalRatings
          IN  media' = [media EXCEPT ![i].ratings = totalRatings,
                                     ![i].internal = [average |-> sum \div totalRatings,
                                                      count   |-> totalRatings]]
    /\ UNCHANGED <<isRunning, stats, tasks, calls, remote, now, ticks, edits, faults, refused, baseline, client, cli, direct>>

---------------------------------------------------------------------------

Next ==
    \/ fullSync
    \/ syncNewReleases
    \/ syncTrendingContent
    \/ cleanupObsoleteContent
    \/ scripts_cleanupObsoleteContent
    \/ \E c \in Chains :
          \/ FetchListing(c)
          \/ LookupItem(c)
          \/ FetchAndSave(c)
          \/ BatchReturns(c)
          \/ FetchUpcoming(c)
          \/ FetchNowPlaying(c)
          \/ TrendReset(c)
          \/ TrendFetch(c)
          \/ TrendFind(c)
          \/ TrendRefind(c)
          \/ TrendMark(c)
          \/ UpdateFind(c)
          \/ UpdateItem(c)
          \/ Cleanup(c)
          \/ Finish(c)
    \/ Tick
    \/ EditRemote
    \/ incrementView
    \/ updateRating

Spec == Init /\ [][Next]_vars

\* the steps of one call chain
ChainStep(c) ==
    \/ FetchListing(c) \/ LookupItem(c) \/ FetchAndSave(c) \/ BatchReturns(c)
    \/ FetchUpcoming(c) \/ FetchNowPlaying(c)
    \/ TrendReset(c) \/ TrendFetch(c) \/ TrendFind(c) \/ TrendRefind(c)
    \/ TrendMark(c)
    \/ UpdateFind(c) \/ UpdateItem(c) \/ Cleanup(c) \/ Finish(c)

\* the operations started one after the other, as the timers of
\* setupCronJobs start them at different hours, with the passing of time and
\* the failures of the remote service and the store
RunNext ==
    \/ Quiet /\ fullSync
    \/ Quiet /\ syncNewReleases
    \/ Quiet /\ syncTrendingContent
    \/ \E c \in Chains : ChainStep(c)
    \/ Tick

\* every awaited call of a chain returns or throws, so a chain that can
\* take a step eventually takes one
RunSpec == Init /\ [][RunNext]_vars /\ \A c \in Chains : WF_vars(ChainStep(c))


---------------------------------------------------------------------------
(* ContentAggregator: the insert path used by scripts/syncCatalog.js *)

\* the popularity score of a title; the hot titles are the ones above 100
popularity(k) == IF remote[k].hot THEN 150 ELSE 40

\* Media.findOne({ tmdbId, type }): no filter on isActive
findOne(tmdbId, type) ==
    \E i \in DOMAIN media : media[i].tmdbId = tmdbId /\ media[i].type = type

convertMovieToMediaFormat(k) ==
    [tmdbId     |-> k[2],
     type       |-> "movie",
     slug       |-> generateSlug(remote[k].title),
     average    |-> remote[k].average,
     internal   |-> [average |-> 0, count |-> 0],
     isActive   |-> TRUE,
     trending   |-> popularity(k) > 100,
     views      |-> 0,
     ratings    |-> 0,
     createdAt  |-> now,
     lastSyncAt |-> now]

convertTVToMediaFormat(k) ==
    [convertMovieToMediaFormat(k) EXCEPT !.type = "series"]

\* processAndSave: an existing document is returned as it is; otherwise the
\* details are fetched, converted and saved; a rejected save is logged
processAndSave(k, doc) ==
    /\ calls < MaxCalls
    /\ calls' = calls + 1
    /\ media' = IF findOne(doc.tmdbId, doc.type) \/ DuplicateKey(media, doc, 0)
                THEN media
                ELSE Append(media, doc)
    /\ UNCHANGED <<isRunning, stats, tasks, Env, faults>>

processAndSaveMovie ==
    \E k \in Offered :
       k[1] = "movie" /\ processAndSave(k, convertMovieToMediaFormat(k))

processAndSaveTVShow ==
    \E k \in Offered :
       k[1] = "tv" /\ processAndSave(k, convertTVToMediaFormat(k))

AggregatorNext ==
    \/ processAndSaveMovie
    \/ processAndSaveTVShow
    \/ Tick
    \/ EditRemote

AggregatorSpec == Init /\ [][AggregatorNext]_vars

---------------------------------------------------------------------------
(* The trending listing moves while a trending run is in progress *)

\* chain c is inside syncTrendingContent (step 6 of fullSync or the timer)
InTrending(c) == tasks[c].op # "idle" /\ tasks[c].step = 6

\* /trending/all/week answers differently from one request to the next
ShiftTrending ==
    /\ \E c \in Chains : InTrending(c)
    /\ Budget
    /\ edits' = edits + 1
    /\ \E k \in Offered : remote' = [remote EXCEPT ![k].hot = ~@]
    /\ UNCHANGED <<media, isRunning, stats, tasks, calls, now, ticks, acts, faults,
                   refused, baseline, client, cli, direct>>

OverlapNext ==
    \/ Next
    \/ ShiftTrending

OverlapSpec == Init /\ [][OverlapNext]_vars

---------------------------------------------------------------------------
(* Repeated runs of updateExistingContent over a catalog some of whose     *)
(* titles the remote catalog has withdrawn                                 *)

\* the remote catalog withdraws a title: its detail request fails from now on
Withdraw ==
    /\ \E k \in Offered : remote' = [remote EXCEPT ![k].gone = TRUE]
    /\ UNCHANGED <<media, isRunning, stats, tasks, calls, now, ticks, edits, acts,
                   faults, refused, baseline, client, cli, direct>>

\* the loop of updateExistingContent over the selected snapshots: a failed
\* fetch or write is logged and the loop goes on
RECURSIVE RefreshAll(_, _)
RefreshAll(coll, sel) ==
    IF sel = <<>> THEN coll
    ELSE LET m == Head(sel)
             k == DetailKey(m.doc.type, m.doc.tmdbId)
             data == updateData(Details(k), m.doc)
             done == Available(k) /\ ~DuplicateKey(coll, data, m.id)
         IN  RefreshAll(IF done THEN [coll EXCEPT ![m.id] = data] ELSE coll,
                        Tail(sel))

\* one whole run of updateExistingContent
updateExistingContent ==
    LET sel == findStale(media)
        after == RefreshAll(media, sel)
        updated == Cardinality({i \in DOMAIN media : after[i] # media[i]})
    IN  /\ Quiet
        /\ media' = after
        /\ stats' = [stats EXCEPT !.updated = @ + updated]
        /\ UNCHANGED <<isRunning, tasks, calls, Env, faults>>

RefreshNext ==
    \/ processAndSaveMovie
    \/ processAndSaveTVShow
    \/ Tick
    \/ Withdraw
    \/ updateExistingContent

\* the timer starts run after run
RefreshSpec == Init /\ [][RefreshNext]_vars /\ WF_vars(updateExistingContent)


---------------------------------------------------------------------------
(* The TMDB client's queue: makeRequest and processQueue *)

MaxRequests == 4        \* makeRequest calls in a behaviour
MaxClock == 4           \* the clock stops here

Pipeline ==
    <<media, remote, now, isRunning, stats, tasks, calls, ticks, edits, acts,
      faults, refused, baseline>>

\* a processor that does not wait between requests
WakeNow(t) == t

\* await this.delay(this.requestDelay): the time the processor resumes at
WakeTime(t) == t + requestDelay

\* one turn of the loop of processQueue up to its first await: shift the
\* oldest request and start its axios call
Send(cl) ==
    [cl EXCEPT !.requestQueue = Tail(@), !.cur = Head(cl.requestQueue),
               !.pc = "request", !.wake = 0,
               !.sentCount = @ + 1, !.lastSent = cl.clk]

\* processQueue, called: returns at once when a processor is already running
\* or nothing is queued, otherwise becomes the processor
processQueue(cl) ==
    IF cl.isProcessingQueue \/ cl.requestQueue = <<>>
    THEN cl
    ELSE Send([cl EXCEPT !.isProcessingQueue = TRUE])

\* the promise of a request is answered
Settle(cl, id, during, how) ==
    [cl EXCEPT !.settled = @ \cup {[id |-> id, during |-> during, how |-> how]}]

\* makeRequest: a cached answer is returned without queueing; otherwise the
\* request is queued and processQueue is called
makeRequest ==
    /\ client.issued < MaxRequests
    /\ \E key \in CacheKeys :
          LET id == client.issued + 1
              c1 == [client EXCEPT !.issued = id, !.asked = key]
          IN  client' =
                 IF key \in client.cache
                 THEN Settle(c1, id, client.pc, "cache")
                 ELSE processQueue(
                         [c1 EXCEPT
                            !.requestQueue =
                               Append(@, [id |-> id, key |-> key,
                                          doneAtEnq |-> client.doneCount,
                                          during |-> client.pc])])
    /\ UNCHANGED <<Pipeline, cli, direct>>

\* variant: the answer of a failed call is stored as well
CachedAlways(cache, key, ok) == cache \cup {key}

\* this.cache.set(cacheKey, response.data), in the try block only
Cached(cache, key, ok) == IF ok THEN cache \cup {key} ELSE cache

\* variant: the processor stops without giving the flag back
LoopExitsHolding(cl) == [cl EXCEPT !.pc = "idle"]

\* the while loop of processQueue ends: this.isProcessingQueue = false
LoopExits(cl) == [cl EXCEPT !.pc = "idle", !.isProcessingQueue = FALSE]

\* the axios call of the request in flight ends: the answer is cached and the
\* caller resolved, or the caller is rejected; then the processor sleeps if
\* requests are waiting, and stops if none is
Respond ==
    /\ client.pc = "request"
    /\ \E ok \in BOOLEAN :
          LET c1 == [Settle(client, client.cur.id, client.cur.during,
                            IF ok THEN "resolved" ELSE "rejected")
                     EXCEPT
                        !.cache = Cached(@, client.cur.key, ok),
                        !.done = Append(@, [key |-> client.cur.key, ok |-> ok]),
                        !.doneCount = @ + 1, !.lastDone = client.clk,
                        !.cur = NoRequest]
          IN  client' =
                 IF c1.requestQueue # <<>>
                 THEN [c1 EXCEPT !.pc = "delay", !.wake = WakeTime(client.clk)]
                 ELSE LoopExits(c1)
    /\ UNCHANGED <<Pipeline, cli, direct>>

\* the delay timer fires, not before its time: the loop condition is tested
\* again and the loop goes round
Wake ==
    /\ client.pc = "delay"
    /\ client.clk >= client.wake
    /\ client' = IF client.requestQueue # <<>> THEN Send(client)
                 ELSE LoopExits(client)
    /\ UNCHANGED <<Pipeline, cli, direct>>

\* time passes; the clock stops at MaxClock unless a timer is still to fire
Advance ==
    /\ \/ client.clk < MaxClock
       \/ client.pc = "delay" /\ client.clk < client.wake
    /\ client' = [client EXCEPT !.clk = @ + 1]
    /\ UNCHANGED <<Pipeline, cli, direct>>

\* an entry of the cache reaches its time-to-live (stdTTL) and is dropped
Expire ==
    /\ \E key \in client.cache : client' = [client EXCEPT !.cache = @ \ {key}]
    /\ UNCHANGED <<Pipeline, cli, direct>>

ClientNext ==
    \/ makeRequest
    \/ Respond
    \/ Wake
    \/ Advance
    \/ Expire

ClientSpec == Init /\ [][ClientNext]_vars

\* every axios call ends (timeout: 10000), every timer fires, time passes
FairClientSpec ==
    /\ ClientSpec
    /\ WF_vars(Respond)
    /\ WF_vars(Wake)
    /\ WF_vars(Advance)


---------------------------------------------------------------------------
(* The command-line entry points: main of scripts/syncCatalog.js and the    *)
(* CLI block of jobs/syncCatalog.js.  store: the database can be reached;   *)
(* apiKey: TMDB_API_KEY is set; arg: a tmdbId follows the command.  "help"  *)
(* stands for any word that is not a command.                               *)

scripts_Commands ==
    {"full", "releases", "update", "trending", "stats", "fetch", "daemon", "help"}

jobs_Commands == {"full", "releases", "trending", "cleanup", "stats", "help"}

\* the method a command is dispatched to
Operation(command) ==
    CASE command = "full"     -> "fullSync"
      [] command = "releases" -> "syncNewReleases"
      [] command = "update"   -> "updateExistingContent"
      [] command = "trending" -> "syncTrendingContent"
      [] command = "cleanup"  -> "cleanupObsoleteContent"
      [] command = "stats"    -> "getCatalogStats"
      [] command = "fetch"    -> "fetchSpecificContent"
      [] command = "daemon"   -> "setupScheduledTasks"
      [] OTHER                -> "usage"

Exit(c, status) == [c EXCEPT !.pc = "exited", !.exit = status]

\* node scripts/syncCatalog.js <command> [tmdbId]
scripts_main ==
    /\ cli.pc = "off"
    /\ \E command \in scripts_Commands, store \in BOOLEAN, apiKey \in BOOLEAN,
          arg \in BOOLEAN :
          /\ arg => command = "fetch"
          /\ cli' = [InitCli EXCEPT !.pc = "init", !.variant = "scripts",
                                    !.command = command, !.arg = arg,
                                    !.store = store, !.apiKey = apiKey]
    /\ UNCHANGED <<Pipeline, client, direct>>

\* CatalogSyncer.initialize of the script, and `if (!initialized) exit(1)`
scripts_initialize ==
    /\ cli.pc = "init"
    /\ cli.variant = "scripts"
    /\ LET initialized == cli.store /\ cli.apiKey
       IN  cli' = IF initialized
                  THEN [cli EXCEPT !.pc = "run", !.initialized = TRUE]
                  ELSE Exit(cli, 1)
    /\ UNCHANGED <<Pipeline, client, direct>>

\* the switch of main and what follows it
scripts_dispatch ==
    /\ cli.pc = "run"
    /\ cli.variant = "scripts"
    /\ cli' = CASE cli.command = "fetch" /\ ~cli.arg -> Exit(cli, 1)
                [] cli.command = "daemon" ->
                     [cli EXCEPT !.pc = "daemon", !.ran = Operation(cli.command)]
                [] OTHER ->
                     Exit([cli EXCEPT !.ran = Operation(cli.command),
                                      !.completed = TRUE], 0)
    /\ UNCHANGED <<Pipeline, client, direct>>

\* node jobs/syncCatalog.js [command]: the default command is full
jobs_main ==
    /\ cli.pc = "off"
    /\ \E command \in jobs_Commands, store \in BOOLEAN, apiKey \in BOOLEAN :
          cli' = [InitCli EXCEPT !.pc = "init", !.variant = "jobs",
                                 !.command = command,
                                 !.store = store, !.apiKey = apiKey]
    /\ UNCHANGED <<Pipeline, client, direct>>

\* mongoose.connect, which throws when the store cannot be reached, then
\* catalogSyncer.initialize(), whose result is not looked at
initialize ==
    /\ cli.pc = "init"
    /\ cli.variant = "jobs"
    /\ cli' = IF cli.store
              THEN [cli EXCEPT !.pc = "run", !.initialized = TRUE]
              ELSE Exit(cli, 1)
    /\ UNCHANGED <<Pipeline, client, direct>>

\* the switch of the CLI block; getCatalogStats rethrows what it catches,
\* every other operation catches its own errors
jobs_dispatch ==
    /\ cli.pc = "run"
    /\ cli.variant = "jobs"
    /\ \E threw \in BOOLEAN :
          /\ threw => cli.command = "stats"
          /\ cli' = IF threw
                    THEN Exit([cli EXCEPT !.ran = Operation(cli.command)], 1)
                    ELSE Exit([cli EXCEPT !.ran = Operation(cli.command),
                                          !.completed = TRUE], 0)
    /\ UNCHANGED <<Pipeline, client, direct>>

CliNext ==
    \/ scripts_main
    \/ scripts_initialize
    \/ scripts_dispatch
    \/ jobs_main
    \/ initialize
    \/ jobs_dispatch

CliSpec == Init /\ [][CliNext]_vars


---------------------------------------------------------------------------
(* The TMDBService of services/tmdbService.js, used by the sync script: its *)
(* detail fetches call axios directly.                                      *)

MaxDetailCalls == 2     \* getMovieDetails / getTVDetails calls in a behaviour

\* the requests of one detail fetch: /movie/{id}, /credits, /videos,
\* /watch/providers
SubRequests == {"details", "credits", "videos", "providers"}

\* Promise.all over four axios.get calls, all started at once
StartDetails(kind, tmdbId) ==
    [direct EXCEPT
        !.calls = @ + 1, !.kind = kind, !.tmdbId = tmdbId,
        !.pending = @ \cup ({direct.calls + 1} \X SubRequests),
        !.waiting = TRUE, !.returned = "none"]

\* getMovieDetails up to its await; the caller makes one detail call at a time
services_getMovieDetails ==
    /\ ~direct.waiting
    /\ direct.calls < MaxDetailCalls
    /\ \E tmdbId \in 1..MaxMovieId : direct' = StartDetails("movie", tmdbId)
    /\ UNCHANGED <<Pipeline, client, cli>>

services_getTVDetails ==
    /\ ~direct.waiting
    /\ direct.calls < MaxDetailCalls
    /\ \E tmdbId \in 1..MaxTvId : direct' = StartDetails("tv", tmdbId)
    /\ UNCHANGED <<Pipeline, client, cli>>

\* one axios call ends.  Promise.all rejects on the first failure of the
\* call being awaited, while its other requests are still in flight, and
\* resolves when the last one has succeeded
services_Respond ==
    \E r \in direct.pending, ok \in BOOLEAN :
       LET left == direct.pending \ {r}
           mine == direct.waiting /\ r[1] = direct.calls
       IN
       /\ direct' =
             IF ~mine THEN [direct EXCEPT !.pending = left]
             ELSE IF ~ok
             THEN [direct EXCEPT !.pending = left, !.waiting = FALSE,
                                 !.returned = "error"]
             ELSE IF \E q \in left : q[1] = direct.calls
             THEN [direct EXCEPT !.pending = left]
             ELSE [direct EXCEPT !.pending = left, !.waiting = FALSE,
                                 !.returned = "record"]
       /\ UNCHANGED <<Pipeline, client, cli>>

DirectNext ==
    \/ services_getMovieDetails
    \/ services_getTVDetails
    \/ services_Respond

DirectSpec == Init /\ [][DirectNext]_vars


---------------------------------------------------------------------------
(* Properties *)

C2_Idempotent ==
    (baseline >= 0 /\ faults = 0 /\ edits = 0) =>
        /\ Len(media) = baseline
        /\ \A i, j \in DOMAIN media :
              (media[i].tmdbId = media[j].tmdbId /\ media[i].type = media[j].type)
                  => i = j

\* a second fullSync reaches its end after an undisturbed first one
C2_SecondRunEnds ==
    /\ baseline > 0
    /\ faults = 0
    /\ edits = 0
    /\ tasks["guarded"].op = "fullSync"
    /\ tasks["guarded"].pc = "finish"

\* C3: a refresh of updateExistingContent leaves rating.internal (average and
\* count) of every document as it was.
C3_InternalRatingPreserved ==
    [][(\E c \in Chains : UpdateItem(c)) =>
          \A i \in DOMAIN media : media'[i].internal = media[i].internal]_vars

\* C4: a document that is inactive stays inactive in every step of the
\* pipeline.
C4_NeverReactivated ==
    [][\A i \in DOMAIN media : ~media[i].isActive => ~media'[i].isActive]_vars

\* C5: when syncTrendingContent completes its marking, the documents with
\* trending = true are exactly the documents of the collection that match an
\* entry of the sliced listing fetched by that run.
C5_TrendingIsTopN ==
    [][\A c \in Chains :
          (TrendMark(c) /\ faults' = faults) =>
              LET top == tasks[c].top
              IN  {i \in DOMAIN media' : media'[i].trending}
                  = {i \in DOMAIN media' :
                        \E n \in DOMAIN top : /\ media'[i].tmdbId = top[n].tmdbId
                                              /\ media'[i].type = top[n].type}]_vars

\* C6: a cleanup that succeeds, in either implementation, deactivates an
\* active document if and only if it has fewer than 5 views, was created more
\* than 365 days ago and has a TMDB average below 5.0.
C6_CleanupConjunction ==
    [][((cleanupObsoleteContent \/ scripts_cleanupObsoleteContent
            \/ \E c \in Chains : Cleanup(c)) /\ faults' = faults) =>
          \A i \in DOMAIN media :
              media[i].isActive =>
                  (~media'[i].isActive <=> /\ media[i].views < 5
                                           /\ media[i].createdAt < now - 365
                                           /\ media[i].average < 50)]_vars

\* C7: a call of fullSync or syncNewReleases while isRunning is true changes
\* neither the collection, nor the stats, nor the guard, nor any call chain.
C7_RefusedCallIsNoOp ==
    [][(isRunning /\ (fullSync \/ syncNewReleases)) =>
          UNCHANGED <<media, stats, isRunning, tasks>>]_vars

\* a call was turned away and the run it met is still in progress
C7_TurnedAway ==
    /\ refused > 0
    /\ isRunning
    /\ tasks["guarded"].op # "idle"

\* C8: at most one top-level operation is in progress at any time.
C8_AtMostOneOperation ==
    Cardinality({c \in Chains : tasks[c].op # "idle"}) <= 1

\* C9: when the detail fetch or the save of an item of a batch fails, the
\* collection is unchanged, stats.errors grows by exactly one, and the batch
\* goes on with its next item (or returns if the item was the last).
C9_FailedItemSkipped ==
    [][\A c \in Chains :
          (FetchAndSave(c) /\ faults' # faults) =>
              /\ media' = media
              /\ stats'.errors = stats.errors + 1
              /\ tasks'[c].processed = tasks[c].processed
              /\ IF Len(tasks[c].queue) > 1
                 THEN /\ tasks'[c].pc = "lookup"
                      /\ tasks'[c].queue = Tail(tasks[c].queue)
                 ELSE tasks'[c].pc = "return"]_vars

\* the first item of the first batch of a fullSync failed and the second one
\* was saved
C9_BatchWentOn ==
    /\ calls = 1
    /\ faults = 1
    /\ stats.errors = 1
    /\ tasks["guarded"].op = "fullSync"
    /\ tasks["guarded"].step = 1
    /\ tasks["guarded"].ph = 1
    /\ tasks["guarded"].pc = "return"
    /\ Len(media) = 1
    /\ media[1].tmdbId = 2

\* C10: when a step of fullSync throws, stats.errors grows by one and the
\* run goes on with the next step; a fullSync reaches its end only after
\* all eight steps were started.
C10_LaterStepsRun ==
    [][\A c \in Chains :
          (tasks[c].op = "fullSync" /\ tasks'[c].op = "fullSync") =>
              /\ (tasks'[c].threw # tasks[c].threw) =>
                    (/\ stats'.errors = stats.errors + 1
                     /\ tasks'[c].step = tasks[c].step + 1)
              /\ (tasks'[c].pc = "finish") => (tasks'[c].ran = 1..8)]_vars

\* a fullSync in which a step threw has reached its end
C10_ThrewAndFinished ==
    /\ tasks["guarded"].op = "fullSync"
    /\ tasks["guarded"].pc = "finish"
    /\ tasks["guarded"].threw # {}
    /\ tasks["guarded"].ran = 1..8
    /\ stats.errors > 0

---------------------------------------------------------------------------
\* C11: a request that was waiting in the queue when the previous outbound
\* call completed is not sent earlier than requestDelay after that
\* completion.
C11_QueuedGap ==
    [][(client'.sentCount # client.sentCount
        /\ client'.cur.doneAtEnq < client.doneCount)
       => client'.clk >= client.lastDone + requestDelay]_vars

\* three requests were waiting together and the third has been sent, after
\* the two before it completed
C11_ThirdSent ==
    /\ client.pc = "request"
    /\ client.sentCount = 3
    /\ client.doneCount = 2
    /\ client.cur.doneAtEnq = 0

\* C12: any two consecutive outbound calls start at least requestDelay
\* apart, however the second one came to be sent.
C12_MinimumGap ==
    [][(client'.sentCount # client.sentCount /\ client.sentCount > 0)
       => client'.clk >= client.lastSent + requestDelay]_vars

\* C13: every item a discovery strategy inserts has an external rating at or
\* above the threshold of that strategy: 7.0 for the upcoming releases, 5.0
\* for the regional strategy, 6.0 for every other one, the top-rated
\* listings and the trending pass included.
C13_PersistedMeetsThreshold ==
    [][\A c \in Chains :
          (FetchAndSave(c) /\ Len(media') > Len(media))
          => media'[Len(media')].average >=
                (CASE tasks[c].ret = "nr2" -> 70
                   [] tasks[c].ret = "phase" /\ tasks[c].step = 5 -> 50
                   [] OTHER -> 60)]_vars

\* C14: a remote item that is not in the catalog and whose rating meets the
\* threshold is inserted active, not trending, with internal rating {0, 0}
\* and with lastSyncAt equal to the time of the insertion.
C14_InsertDefaults ==
    [][(Len(media') > Len(media) /\ media'[Len(media')].average >= config.minRating)
       => LET d == media'[Len(media')]
          IN  /\ d.isActive
              /\ ~d.trending
              /\ d.internal = [average |-> 0, count |-> 0]
              /\ d.lastSyncAt = now]_vars

\* C15: the lastSyncAt of an item never decreases, whatever step of whatever
\* operation is taken, and it strictly increases each time
\* updateExistingContent refreshes the item.
C15_LastSyncMonotonic ==
    [][/\ \A i \in DOMAIN media :
             /\ i \in DOMAIN media'
             /\ media'[i].lastSyncAt >= media[i].lastSyncAt
       /\ \A c \in Chains :
             (UpdateItem(c) /\ tasks'[c].updated = tasks[c].updated + 1)
             => LET id == Head(tasks[c].stale).id
                IN  media'[id].lastSyncAt > media[id].lastSyncAt]_vars

\* an item has been refreshed: it was synced after the day it was created
C15_Refreshed ==
    \E i \in DOMAIN media :
       /\ media[i].lastSyncAt > media[i].createdAt
       /\ \E c \in Chains : tasks[c].op = "fullSync" /\ tasks[c].updated >= 1

\* C16: processBatch makes no detail call for a listed item that is already
\* in the catalog, active or deactivated, with a lastSyncAt within the
\* staleness window of 7 days.
C16_NoFetchForFreshItem ==
    [][\A c \in Chains :
          (LookupItem(c) /\ tasks'[c].pc = "details")
          => LET item == Head(tasks[c].queue)
             IN  ~\E i \in DOMAIN media :
                     /\ media[i].tmdbId = item.tmdbId
                     /\ media[i].type = tasks[c].ptype
                     /\ ~staleFilter(media[i])]_vars

\* C17: when the detail fetch of an item fails, nothing is persisted for that
\* item in this run: no later step of the same operation inserts it.
C17_FailedItemNotPersisted ==
    [][\A c \in Chains :
          (FetchAndSave(c) /\ Len(media') > Len(media))
          => DetailKey(tasks[c].ptype, Head(tasks[c].queue).tmdbId)
                \notin tasks[c].failed]_vars

\* C19: the run record of an operation starts from zero: when a chain
\* starts a top-level operation every counter of the statistics is zero.
C19_RunRecordStartsAtZero ==
    [][\A c \in Chains :
          (tasks[c].op = "idle" /\ tasks'[c].op # "idle")
          => /\ stats'.totalSynced = 0
             /\ stats'.moviesAdded = 0
             /\ stats'.seriesAdded = 0
             /\ stats'.animesAdded = 0
             /\ stats'.updated = 0
             /\ stats'.errors = 0]_vars

\* C20: every failure inside an operation (a detail fetch, a save, a refresh
\* in updateExistingContent, a call of syncNewReleases) adds one to the error
\* counter of the statistics.
C20_EveryFailureCounted ==
    [][faults' # faults => stats'.errors = stats.errors + 1]_vars

\* C18: a command-line run that has exited did so with status 1 and without
\* having run any operation if the store was unreachable or the API
\* credentials were missing, and with status 0 if its command completed.
C18_ExitStatus ==
    cli.pc = "exited"
    => /\ ~(cli.store /\ cli.apiKey)
          => /\ cli.exit = 1
             /\ cli.ran \notin {"fullSync", "syncNewReleases", "updateExistingContent",
                                "syncTrendingContent", "cleanupObsoleteContent",
                                "fetchSpecificContent"}
       /\ cli.completed => cli.exit = 0

\* C21: every admitted item whose detail fetch and save raise no injected
\* failure is in the collection after processBatch handled it (and so when
\* the run ends, since no document is ever removed), whatever its title.
C21_FetchedItemIsStored ==
    [][\A c \in Chains :
          (FetchAndSave(c) /\ faults' = faults)
          => LET item == Head(tasks[c].queue)
                 k == DetailKey(tasks[c].ptype, item.tmdbId)
             IN  \E i \in DOMAIN media' :
                    /\ media'[i].tmdbId = item.tmdbId
                    /\ media'[i].type = TypeOf(k)]_vars

\* C22: at most one remote request is in flight at any time, whether it was
\* sent by the queue processor or by a detail fetch.
C22_OneInFlight ==
    Cardinality(direct.pending) + (IF client.pc = "request" THEN 1 ELSE 0) <= 1

\* C23: the cache holds a key only if a remote call for that key succeeded;
\* a failed call leaves the cache as it was; a request whose key is cached
\* is answered at once and nothing is enqueued or sent for it, while a
\* request whose key is not cached is enqueued or sent.
C23_CacheOnlySuccesses ==
    [][/\ \A key \in client'.cache :
             \E n \in DOMAIN client'.done :
                client'.done[n].key = key /\ client'.done[n].ok
       /\ (Len(client'.done) > Len(client.done)
              /\ ~client'.done[Len(client'.done)].ok)
          => client'.cache = client.cache
       /\ client'.issued # client.issued
          => IF client'.asked \in client.cache
             THEN /\ client'.requestQueue = client.requestQueue
                  /\ client'.sentCount = client.sentCount
                  /\ \E a \in client'.settled :
                        a.id = client'.issued /\ a.how = "cache"
             ELSE \/ client'.cur.id = client'.issued
                  \/ \E n \in DOMAIN client'.requestQueue :
                        client'.requestQueue[n].id = client'.issued]_vars

\* a call for a key failed and a later request for the same key is in flight
\* again, after another request was answered from the cache
C23_SentAgain ==
    /\ client.pc = "request"
    /\ \E n \in DOMAIN client.done :
          client.done[n].key = client.cur.key /\ ~client.done[n].ok
    /\ \E a \in client.settled : a.how = "cache" /\ a.id < client.cur.id

\* C26: every request that is in the queue or in flight is eventually
\* resolved or rejected, whatever the processor was doing when the request
\* was enqueued.
C26_EveryRequestSettled ==
    \A id \in 1..MaxRequests :
       (\/ client.cur.id = id
        \/ \E n \in DOMAIN client.requestQueue : client.requestQueue[n].id = id)
       ~> (\E a \in client.settled : a.id = id)

\* a request enqueued while the processor was sleeping between two calls, and
\* one enqueued while the last call was in flight, have both been answered
C26_LateRequestsSettled ==
    /\ \E a \in client.settled : a.during = "delay" /\ a.how # "cache"
    /\ \E a \in client.settled : a.during = "request" /\ a.how # "cache"
    /\ client.pc = "idle"

\* C24: a run of updateExistingContent selects at most StaleLimit documents,
\* fetches each selected document once, and every document it fetches is
\* stale (lastSyncAt more than 7 days old) at that moment; its steps write
\* no other document.
C24_OnlyStaleRefetched ==
    [][\A c \in Chains :
          /\ UpdateFind(c) => Len(tasks'[c].stale) <= StaleLimit
          /\ UpdateItem(c)
             => LET id == Head(tasks[c].stale).id
                IN  /\ staleFilter(media[id])
                    /\ Len(tasks'[c].stale) = Len(tasks[c].stale) - 1
                    /\ \A i \in DOMAIN media : i # id => media'[i] = media[i]]_vars

\* a run has refreshed as many documents as the limit allows and has left a
\* third stale document alone
C24_LimitReached ==
    \E c \in Chains :
       /\ tasks[c].op = "fullSync"
       /\ tasks[c].step = 8
       /\ tasks[c].updated = StaleLimit
       /\ \E i \in DOMAIN media : staleFilter(media[i])

\* C25: whenever the guard is taken it is eventually given back: every
\* fullSync or syncNewReleases run ends with isRunning = false, whatever
\* call fails during the run.
C25_GuardReleased == isRunning ~> ~isRunning

\* a syncNewReleases run whose listing call failed has ended and the guard
\* is free again
C25_FailedRunEnded ==
    /\ ~isRunning
    /\ faults = 1
    /\ calls = 1
    /\ tasks["guarded"].op = "idle"
    /\ media = <<>>
    /\ refused = 0
    /\ baseline = -1
    /\ stats = InitStats

\* document i is stale and its detail request would be answered
StaleServed(i) ==
    /\ i \in DOMAIN media
    /\ staleFilter(media[i])
    /\ Available(DetailKey(media[i].type, media[i].tmdbId))

\* C27: under repeated runs of updateExistingContent, every stale document
\* whose title the remote catalog still serves is eventually refreshed (or
\* its title is withdrawn), whatever happens to the other stale documents.
C27_StaleEventuallyRefreshed ==
    \A i \in 1..MaxCalls : StaleServed(i) ~> ~StaleServed(i)

\* C28: the steps of fullSync that follow its trending step, the refresh of
\* a stale document and the cleanup, leave the trending flag of every
\* document as the trending step set it.
C28_LaterStepsKeepTrending ==
    [][(\E c \in Chains : UpdateItem(c) \/ Cleanup(c)) =>
          \A i \in DOMAIN media : media'[i].trending = media[i].trending]_vars

\* C29: the refresh of a stale document never changes its natural key, the
\* pair of tmdbId and type, whatever the remote record says now.
C29_RefreshKeepsNaturalKey ==
    [][(\E c \in Chains : UpdateItem(c)) =>
          \A i \in DOMAIN media : /\ media'[i].tmdbId = media[i].tmdbId
                                   /\ media'[i].type = media[i].type]_vars

\* the documents that match an entry of the sliced listing `top`
Matching(coll, top) ==
    {i \in DOMAIN coll : \E n \in DOMAIN top : /\ coll[i].tmdbId = top[n].tmdbId
                                                /\ coll[i].type = top[n].type}

\* C30: the timer's syncTrendingContent marks last, after the trending step
\* of a running fullSync has marked in the middle of it (some document is
\* flagged although the timer's run has reset every flag), and no call has
\* failed: the flagged documents are then exactly the documents matching the
\* sliced listing of one of the two runs, the one fetched last.
C30_OverlapLeavesLatestTopN ==
    [][(/\ TrendMark("unguarded")
        /\ faults' = 0
        /\ tasks["guarded"].op = "fullSync"
        /\ tasks["guarded"].pc = "updFind"
        /\ \E i \in DOMAIN media : media[i].trending)
       => LET flagged == {i \in DOMAIN media' : media'[i].trending}
          IN  \/ flagged = Matching(media', tasks["unguarded"].top)
              \/ flagged = Matching(media', tasks["guarded"].top)]_vars


====
